---- MODULE Spec2Model ----
(***************************************************************************)
(* Model of pymap's MIME content parser (pymap/mime/__init__.py) and of    *)
(* the dict backend's login and demo loader (pymap/backend/dict),          *)
(* and of the Response objects of pymap/parsing/response.                  *)
(*                                                                         *)
(* Bytes are integers 0..255 and a bytestring is a sequence of them.       *)
(* Python offsets are 0-based: data[i] in the source is data[i + 1] here,  *)
(* and data[s:e] is Slice(data, s, e).                                     *)
(***************************************************************************)
EXTENDS Integers, Sequences, FiniteSets, TLC

VARIABLES
    input,      \* the message as written: a sequence of [bytes, term] lines
    data,       \* the bytestring handed to MessageContent.parse
    pc,         \* position of the parsing client
    content,    \* result of MessageContent.parse(data): <<>> or <<node>>
    walked,     \* list(content.walk())
    reparsed,   \* MessageContent.parse(bytes(m.raw)) for every walked m
    config,     \* the backend's Config: demo_data, demo_user, demo_password
    demo,       \* the packaged demo directory: mailbox name -> file name -> file
    set_cache,  \* config.set_cache: user -> index of its MailboxSet in sets
    sets,       \* every MailboxSet object created so far
    tasks,      \* the Session.login coroutines and the sessions they return
    ops_done,   \* number of mailbox commands the sessions have run
    response,   \* a Response object: tag, text, untagged data, cached bytes
    added,      \* the data handed to add_untagged so far, in call order
    wire        \* every result of bytes(response), with the data added before it

parse_vars == <<input, data, pc, content, walked, reparsed>>

backend_vars == <<config, demo, set_cache, sets, tasks, ops_done>>

response_vars == <<response, added, wire>>

vars == <<parse_vars, backend_vars, response_vars>>

\* No message is being parsed.
ParserOff ==
    /\ input = <<>>
    /\ data = <<>>
    /\ pc = "off"
    /\ content = <<>>
    /\ walked = <<>>
    /\ reparsed = <<>>

\* The backend is not running.
BackendOff ==
    /\ config = [demo_data |-> FALSE, demo_user |-> "demouser", demo_password |-> "demopass"]
    /\ demo = <<>>
    /\ set_cache = <<>>
    /\ sets = <<>>
    /\ tasks = <<>>
    /\ ops_done = 0

\* No response is being built.
ResponseOff ==
    /\ response = <<>>
    /\ added = <<>>
    /\ wire = <<>>

----------------------------------------------------------------------------
(* Byte values the parser tests for.                                       *)

LF == 10
CR == 13
COLON == 58

\* _util.whitespace: the ASCII whitespace bytes b' \t\n\v\f\r'
whitespace == {32, 9, 10, 11, 12, 13}

\* b'content-type'
b_content_type == <<99, 111, 110, 116, 101, 110, 116, 45, 116, 121, 112, 101>>
\* b'multipart'
b_multipart == <<109, 117, 108, 116, 105, 112, 97, 114, 116>>
\* b'message'
b_message == <<109, 101, 115, 115, 97, 103, 101>>
\* b'rfc822'
b_rfc822 == <<114, 102, 99, 56, 50, 50>>
\* b'text'
b_text == <<116, 101, 120, 116>>
\* b'plain'
b_plain == <<112, 108, 97, 105, 110>>
\* b'boundary'
b_boundary == <<98, 111, 117, 110, 100, 97, 114, 121>>
\* b'--'
b_dashes == <<45, 45>>
\* b'/;="' : the separators of a Content-Type value
b_seps == <<47, 59, 61, 34>>

----------------------------------------------------------------------------
(* Bytestring primitives (Python's bytes methods).                         *)

\* data[s:e]
Slice(d, s, e) == SubSeq(d, s + 1, e)

\* data.find(bytes([b]), start, end): the first index in [start, end) or -1
Find(d, b, start, end) ==
    LET hits == {i \in start..(end - 1) : d[i + 1] = b}
    IN  IF hits = {} THEN -1 ELSE CHOOSE i \in hits : \A j \in hits : i <= j

\* bytes.lower()
lower(d) == [i \in 1..Len(d) |-> IF d[i] >= 65 /\ d[i] <= 90 THEN d[i] + 32 ELSE d[i]]

\* bytes.strip()
strip(d) ==
    LET keep == {i \in 1..Len(d) : d[i] \notin whitespace}
    IN  IF keep = {} THEN <<>>
        ELSE LET lo == CHOOSE i \in keep : \A j \in keep : i <= j
                 hi == CHOOSE i \in keep : \A j \in keep : i >= j
             IN  SubSeq(d, lo, hi)

\* concatenation of a sequence of sequences
RECURSIVE Concat(_)
Concat(ss) == IF ss = <<>> THEN <<>> ELSE Head(ss) \o Concat(Tail(ss))

----------------------------------------------------------------------------
(* pymap/mime/_util.py                                                     *)

\* find_any(data, whitespace, start, end, False, False): the index of the last
\* byte of data[start:end] that is not in chars, or -1 when there is none
\* (the line is empty or holds whitespace only).
find_any(d, chars, start, end, match, forward) ==
    LET hits == {i \in start..(end - 1) : (d[i + 1] \in chars) = match}
    IN  IF hits = {} THEN -1
        ELSE IF forward THEN CHOOSE i \in hits : \A j \in hits : i <= j
        ELSE CHOOSE i \in hits : \A j \in hits : i >= j

\* get_raw(data, *lines): the view of data from the start of the first line to
\* the next_start of the last line of the given line lists (empty when all the
\* lists are empty).
get_raw(d, groups) ==
    LET all == Concat(groups)
    IN  IF all = <<>> THEN <<>>
        ELSE Slice(d, all[1][1], all[Len(all)][3])

----------------------------------------------------------------------------
(* pymap/mime/parsed.py and the Content-Type header parser it calls.       *)

\* The value of a header group: the bytes after the first ':' of its lines.
HeaderValue(group) ==
    LET joined == Concat(group)
        colon == Find(joined, COLON, 0, Len(joined))
    IN  Slice(joined, colon + 1, Len(joined))

\* The value of the parameter called name in the ';'-separated parameter
\* list rest, as <<value>>, or <<>> when there is no such parameter.  A
\* value in double quotes loses the quotes.
RECURSIVE ParamLookup(_, _)
ParamLookup(rest, name) ==
    IF rest = <<>> THEN <<>>
    ELSE LET semi == Find(rest, b_seps[2], 0, Len(rest))
             seg == IF semi < 0 THEN rest ELSE Slice(rest, 0, semi)
             more == IF semi < 0 THEN <<>> ELSE Slice(rest, semi + 1, Len(rest))
             eq == Find(seg, b_seps[3], 0, Len(seg))
             key == IF eq < 0 THEN <<>> ELSE lower(strip(Slice(seg, 0, eq)))
             val == IF eq < 0 THEN <<>> ELSE strip(Slice(seg, eq + 1, Len(seg)))
             unq == IF Len(val) >= 2 /\ val[1] = b_seps[4] /\ val[Len(val)] = b_seps[4]
                    THEN SubSeq(val, 2, Len(val) - 1) ELSE val
         IN  IF eq >= 0 /\ key = name THEN <<unq>> ELSE ParamLookup(more, name)

\* SMTP.header_fetch_parse('Content-Type', value): maintype and subtype in
\* lower case (text/plain when the value is not type/subtype) and the
\* parameters; params is a function whose domain holds "boundary" when the
\* parameter is given.
header_fetch_parse(value) ==
    LET v == strip(value)
        semi == Find(v, b_seps[2], 0, Len(v))
        typ == strip(IF semi < 0 THEN v ELSE Slice(v, 0, semi))
        rest == IF semi < 0 THEN <<>> ELSE Slice(v, semi + 1, Len(v))
        slash == Find(typ, b_seps[1], 0, Len(typ))
        valid == slash > 0 /\ slash < Len(typ) - 1
        bnd == ParamLookup(rest, b_boundary)
    IN  [maintype |-> IF valid THEN lower(Slice(typ, 0, slash)) ELSE b_text,
         subtype |-> IF valid THEN lower(Slice(typ, slash + 1, Len(typ))) ELSE b_plain,
         params |-> IF bnd = <<>> THEN [k \in {} |-> <<>>]
                    ELSE [k \in {"boundary"} |-> bnd[1]]]

\* _default_type
default_type == header_fetch_parse(b_text \o <<b_seps[1]>> \o b_plain)

\* ParsedHeaders.content_type: the parsed first Content-Type header, as
\* <<content_type>>, or <<>> (None) when the message has none.
ParsedHeaders_content_type(headers) ==
    IF b_content_type \in DOMAIN headers
    THEN <<header_fetch_parse(HeaderValue(headers[b_content_type][1]))>>
    ELSE <<>>

----------------------------------------------------------------------------
(* class MessageContent: line scan and header/body split.                  *)

\* MessageContent._find_lines: the loop from position start with ret so far.
RECURSIVE find_lines_loop(_, _, _)
find_lines_loop(d, start, ret) ==
    LET end == Len(d)
        idx == Find(d, LF, start, end)
    IN  IF idx < 0 THEN Append(ret, <<start, end, end>>)
        ELSE LET next_start == idx + 1
                 idx_minus_1 == idx - 1
                 line_end == IF idx_minus_1 >= start /\ d[idx_minus_1 + 1] = CR
                             THEN idx_minus_1 ELSE idx
             IN  find_lines_loop(d, next_start, Append(ret, <<start, line_end, next_start>>))

MessageContent_find_lines(d) == find_lines_loop(d, 0, <<>>)

\* _split_lines leaving the separator line out of both halves
split_lines_drops_separator(d, lines) ==
    LET blank == {i \in 1..Len(lines) :
                    find_any(d, whitespace, lines[i][1], lines[i][2], FALSE, FALSE) < 0}
    IN  IF blank = {} THEN <<<<>>, lines>>
        ELSE LET i == CHOOSE i \in blank : \A j \in blank : i <= j
             IN  <<SubSeq(lines, 1, i - 1), SubSeq(lines, i + 1, Len(lines))>>

\* _split_lines returning lines[0:i], lines[i:]: the separator opens the body
split_lines_separator_in_body(d, lines) ==
    LET blank == {i \in 1..Len(lines) :
                    find_any(d, whitespace, lines[i][1], lines[i][2], FALSE, FALSE) < 0}
    IN  IF blank = {} THEN <<<<>>, lines>>
        ELSE LET i == CHOOSE i \in blank : \A j \in blank : i <= j
             IN  <<SubSeq(lines, 1, i - 1), SubSeq(lines, i, Len(lines))>>

\* MessageContent._split_lines, as <<header_lines, body_lines>>
MessageContent_split_lines(d, lines) ==
    LET blank == {i \in 1..Len(lines) :
                    find_any(d, whitespace, lines[i][1], lines[i][2], FALSE, FALSE) < 0}
    IN  IF blank = {} THEN <<<<>>, lines>>
        ELSE LET i == CHOOSE i \in blank : \A j \in blank : i <= j
             IN  <<SubSeq(lines, 1, i), SubSeq(lines, i + 1, Len(lines))>>

----------------------------------------------------------------------------
(* class MessageHeader                                                     *)

\* MessageHeader._find_folds: the loop over lines[0:len(lines) - 1]
RECURSIVE find_folds_loop(_, _, _, _)
find_folds_loop(d, lines, i, ret) ==
    IF i > Len(lines) - 1 THEN ret
    ELSE LET line == lines[i]
             start == line[1]
             length == line[2] - line[1]
         IN  IF length >= 1 /\ d[start + 1] \in whitespace
             THEN IF ret # <<>>
                  THEN find_folds_loop(d, lines, i + 1,
                           [ret EXCEPT ![Len(ret)] = Append(@, line)])
                  ELSE find_folds_loop(d, lines, i + 1, ret)
             ELSE find_folds_loop(d, lines, i + 1, Append(ret, <<line>>))

\* MessageHeader._find_folds looping over every line, the last one included
find_folds_with_last_line(d, lines) ==
    IF lines = <<>> THEN <<>> ELSE find_folds_loop(d, Append(lines, <<0, 0, 0>>), 1, <<>>)

MessageHeader_find_folds(d, lines) ==
    IF lines = <<>> THEN <<>> ELSE find_folds_loop(d, lines, 1, <<>>)

\* MessageHeader._parse_headers: the loop over the folds, carrying the
\* <<headers, folded>> built so far.  headers maps a name to its groups, each
\* the list of the line views data[start:end] of the group.
RECURSIVE parse_headers_loop(_, _, _, _)
parse_headers_loop(d, folds, i, acc) ==
    IF i > Len(folds) THEN acc
    ELSE LET group == folds[i]
             start == group[1][1]
             end == group[1][2]
             colon == Find(d, COLON, start, end)
             name == lower(strip(Slice(d, start, colon)))
             headers == acc[1]
             value == [k \in 1..Len(group) |-> Slice(d, group[k][1], group[k][2])]
             values == IF name \in DOMAIN headers THEN headers[name] ELSE <<>>
             headers2 == [n \in DOMAIN headers \cup {name} |->
                            IF n = name THEN Append(values, value) ELSE headers[n]]
         IN  IF colon < 0 THEN parse_headers_loop(d, folds, i + 1, acc)
             ELSE parse_headers_loop(d, folds, i + 1,
                      <<headers2, Append(acc[2], <<name, get_raw(d, <<group>>)>>)>>)

MessageHeader_parse_headers(d, folds) ==
    parse_headers_loop(d, folds, 1, <<[n \in {} |-> <<>>], <<>>>>)

\* MessageHeader._parse
MessageHeader_parse(d, lines) ==
    LET folds == MessageHeader_find_folds(d, lines)
        hp == MessageHeader_parse_headers(d, folds)
    IN  [raw |-> get_raw(d, <<lines>>), lines |-> Len(lines),
         folded |-> hp[2], parsed |-> hp[1]]

----------------------------------------------------------------------------
(* class MessageBody and its three variants.  A body is a record whose     *)
(* kind names the class of the object; has_nested and nested are the       *)
(* properties of that class.                                               *)

\* MessageBody._get_boundary: <<boundary>>, or <<>> for None
MessageBody_get_boundary(content_type) ==
    IF "boundary" \notin DOMAIN content_type.params THEN <<>>
    ELSE LET boundary == content_type.params["boundary"]
         IN  IF boundary = <<>> THEN <<>>
             ELSE IF \E i \in 1..Len(boundary) : boundary[i] >= 128 THEN <<>>
             ELSE <<boundary>>

\* _MultipartBody._find_parts: the loop over the body lines; it ends at the
\* first stop line
RECURSIVE find_parts_loop(_, _, _, _, _)
find_parts_loop(d, lines, boundary, i, ret) ==
    IF i > Len(lines) THEN ret
    ELSE LET line == lines[i]
             line_view == Slice(d, line[1], line[2])
             part_match == b_dashes \o boundary
             stop_match == b_dashes \o boundary \o b_dashes
         IN  IF line_view = stop_match THEN ret
             ELSE IF line_view = part_match
             THEN find_parts_loop(d, lines, boundary, i + 1, Append(ret, <<>>))
             ELSE IF ret # <<>>
             THEN find_parts_loop(d, lines, boundary, i + 1,
                      [ret EXCEPT ![Len(ret)] = Append(@, line)])
             ELSE find_parts_loop(d, lines, boundary, i + 1, ret)

\* _find_parts starting with ret = [[]]: the preamble becomes a part
find_parts_keeps_preamble(d, lines, boundary) ==
    find_parts_loop(d, lines, boundary, 1, <<<<>>>>)

MultipartBody_find_parts(d, lines, boundary) ==
    find_parts_loop(d, lines, boundary, 1, <<>>)

\* _SinglepartBody._parse_body
SinglepartBody_parse_body(d, lines, content_type) ==
    [kind |-> "singlepart", raw |-> get_raw(d, <<lines>>), lines |-> Len(lines),
     content_type |-> content_type, nested |-> <<>>]

RECURSIVE MessageContent_parse_lines(_, _)
RECURSIVE MessageBody_parse(_, _, _)
RECURSIVE MultipartBody_parse_body(_, _, _, _)
RECURSIVE RFC822Body_parse_body(_, _, _)

\* _MultipartBody._parse_body
MultipartBody_parse_body(d, lines, content_type, boundary) ==
    LET parts == MultipartBody_find_parts(d, lines, boundary)
    IN  [kind |-> "multipart", raw |-> get_raw(d, <<lines>>), lines |-> Len(lines),
         content_type |-> content_type,
         nested |-> [k \in 1..Len(parts) |-> MessageContent_parse_lines(d, parts[k])]]

\* _RFC822Body._parse_body and _RFC822Body.__init__
RFC822Body_parse_body(d, lines, content_type) ==
    LET subpart == MessageContent_parse_lines(d, lines)
    IN  [kind |-> "rfc822", raw |-> subpart.raw, lines |-> subpart.lines,
         content_type |-> content_type, nested |-> <<subpart>>]

\* MessageBody._parse without the `if boundary:` test: a multipart without a
\* usable boundary is split on the empty boundary
dispatch_without_boundary_test(d, lines, content_type) ==
    LET maintype == content_type.maintype
        boundary == MessageBody_get_boundary(content_type)
    IN  IF maintype = b_multipart
        THEN MultipartBody_parse_body(d, lines, content_type,
                 IF boundary = <<>> THEN <<>> ELSE boundary[1])
        ELSE IF maintype = b_message /\ content_type.subtype = b_rfc822
        THEN RFC822Body_parse_body(d, lines, content_type)
        ELSE SinglepartBody_parse_body(d, lines, content_type)

\* The dispatch of MessageBody._parse on a content type that is not None
MessageBody_dispatch(d, lines, content_type) ==
    LET maintype == content_type.maintype
        boundary == MessageBody_get_boundary(content_type)
    IN  IF maintype = b_multipart /\ boundary # <<>>
        THEN MultipartBody_parse_body(d, lines, content_type, boundary[1])
        ELSE IF maintype # b_multipart /\ maintype = b_message
                /\ content_type.subtype = b_rfc822
        THEN RFC822Body_parse_body(d, lines, content_type)
        ELSE SinglepartBody_parse_body(d, lines, content_type)

\* MessageBody._parse; content_type is <<>> for None
MessageBody_parse(d, lines, content_type) ==
    MessageBody_dispatch(d, lines,
        IF content_type = <<>> THEN default_type ELSE content_type[1])

\* MessageContent._parse(data, lines)
MessageContent_parse_lines(d, lines) ==
    LET split == MessageContent_split_lines(d, lines)
        header_lines == split[1]
        body_lines == split[2]
        header == MessageHeader_parse(d, header_lines)
        content_type == ParsedHeaders_content_type(header.parsed)
        body == MessageBody_parse(d, body_lines, content_type)
    IN  [raw |-> get_raw(d, <<header_lines, body_lines>>),
         lines |-> Len(lines) - 1,
         header |-> header, body |-> body]

\* MessageContent.parse(data)
MessageContent_parse(d) == MessageContent_parse_lines(d, MessageContent_find_lines(d))

\* MessageBody.has_nested
has_nested(body) == body.kind \in {"multipart", "rfc822"}

\* walk yielding the parts before the node itself
RECURSIVE walk(_)
walk_parts_first(m) ==
    IF has_nested(m.body)
    THEN Concat([k \in 1..Len(m.body.nested) |-> walk(m.body.nested[k])]) \o <<m>>
    ELSE <<m>>

\* MessageContent.walk, as the list of the nodes it yields
walk(m) ==
    IF has_nested(m.body)
    THEN <<m>> \o Concat([k \in 1..Len(m.body.nested) |-> walk(m.body.nested[k])])
    ELSE <<m>>

----------------------------------------------------------------------------
(* Messages handed to the parser.  A message is written as a sequence of   *)
(* lines, each a content without line break and a terminator: "crlf",      *)
(* "lf", or "none" for a last line that is not terminated.                 *)

\* b''
L_blank == <<>>
\* b' '
L_space == <<32>>
\* b'a'
L_text == <<97>>
\* b'--X'
L_part == <<45, 45, 88>>
\* b'--X--'
L_stop == <<45, 45, 88, 45, 45>>
\* b'Content-Type: multipart/mixed; boundary=X'
L_ct_multipart == <<67, 111, 110, 116, 101, 110, 116, 45, 84, 121, 112, 101, 58, 32, 109, 117, 108, 116, 105, 112, 97, 114, 116, 47, 109, 105, 120, 101, 100, 59, 32, 98, 111, 117, 110, 100, 97, 114, 121, 61, 88>>
\* b'Content-Type: message/rfc822'
L_ct_rfc822 == <<67, 111, 110, 116, 101, 110, 116, 45, 84, 121, 112, 101, 58, 32, 109, 101, 115, 115, 97, 103, 101, 47, 114, 102, 99, 56, 50, 50>>
\* b'Content-Type: multipart/mixed'
L_ct_noboundary == <<67, 111, 110, 116, 101, 110, 116, 45, 84, 121, 112, 101, 58, 32, 109, 117, 108, 116, 105, 112, 97, 114, 116, 47, 109, 105, 120, 101, 100>>
\* b'Content-Type: multipart/mixed; boundary=""'
L_ct_emptyboundary == <<67, 111, 110, 116, 101, 110, 116, 45, 84, 121, 112, 101, 58, 32, 109, 117, 108, 116, 105, 112, 97, 114, 116, 47, 109, 105, 120, 101, 100, 59, 32, 98, 111, 117, 110, 100, 97, 114, 121, 61, 34, 34>>
\* b'Content-Type: multipart/mixed; boundary=\xe9'
L_ct_nonascii == <<67, 111, 110, 116, 101, 110, 116, 45, 84, 121, 112, 101, 58, 32, 109, 117, 108, 116, 105, 112, 97, 114, 116, 47, 109, 105, 120, 101, 100, 59, 32, 98, 111, 117, 110, 100, 97, 114, 121, 61, 233>>
\* b'Content-Type: text/plain'
L_ct_plain == <<67, 111, 110, 116, 101, 110, 116, 45, 84, 121, 112, 101, 58, 32, 116, 101, 120, 116, 47, 112, 108, 97, 105, 110>>
\* b'Content-Type: multipart'
L_ct_bad == <<67, 111, 110, 116, 101, 110, 116, 45, 84, 121, 112, 101, 58, 32, 109, 117, 108, 116, 105, 112, 97, 114, 116>>
\* b'Subject: x'
L_subject == <<83, 117, 98, 106, 101, 99, 116, 58, 32, 120>>
\* b' y'
L_fold == <<32, 121>>
\* b'nocolon'
L_nocolon == <<110, 111, 99, 111, 108, 111, 110>>
\* b'From: friend@example.com'
T_from == <<70, 114, 111, 109, 58, 32, 102, 114, 105, 101, 110, 100, 64, 101, 120, 97, 109, 112, 108, 101, 46, 99, 111, 109>>
\* b'To: me@example.com'
T_to == <<84, 111, 58, 32, 109, 101, 64, 101, 120, 97, 109, 112, 108, 101, 46, 99, 111, 109>>
\* b'Subject: Re: Re: Random question'
T_subject == <<83, 117, 98, 106, 101, 99, 116, 58, 32, 82, 101, 58, 32, 82, 101, 58, 32, 82, 97, 110, 100, 111, 109, 32, 113, 117, 101, 115, 116, 105, 111, 110>>
\* b"Well, I don't know that!"
T_body1 == <<87, 101, 108, 108, 44, 32, 73, 32, 100, 111, 110, 39, 116, 32, 107, 110, 111, 119, 32, 116, 104, 97, 116, 33>>
\* b'*AAAAAGGGGGHHHHHH*'
T_body2 == <<42, 65, 65, 65, 65, 65, 71, 71, 71, 71, 71, 72, 72, 72, 72, 72, 72, 42>>

\* The message of test_fetch_rfc822, every line ended by CRLF.
TestMessage ==
    <<T_from, T_to, T_subject, L_ct_plain, L_blank, T_body1, L_blank, T_body2, L_blank>>

\* Longest body section drawn, in lines, after the openings whose body
\* may hold parts, and after the others.
MaxBody == 4

MaxPlainBody == 2

\* The lines a message opens with: those whose body may hold nested parts ...
NestingHeaders ==
    { <<>>,
      <<L_ct_multipart, L_blank>>, <<L_ct_rfc822, L_blank>>, <<L_ct_multipart>>,
      <<L_ct_rfc822, L_blank, L_ct_multipart, L_blank>>,
      <<L_ct_multipart, L_blank, L_text, L_part>> }

\* ... and those whose body is a single part.
PlainHeaders ==
    { <<L_blank>>, <<L_space>>, <<L_fold, L_ct_rfc822, L_blank>>,
      <<L_ct_noboundary, L_blank>>, <<L_ct_emptyboundary, L_blank>>,
      <<L_ct_nonascii, L_blank>>, <<L_ct_plain, L_blank>>, <<L_ct_bad, L_blank>>,
      <<L_subject, L_fold, L_space>>,
      <<L_nocolon, L_subject, L_fold, L_subject, L_blank>> }

\* The lines drawn after them.
BodyPieces == {L_part, L_stop, L_text, L_blank, L_ct_rfc822}

BodyChoices(max) == UNION {[1..n -> BodyPieces] : n \in 0..max}

\* <<line terminator, whether the last line is terminated>>
Styles == {<<"crlf", TRUE>>, <<"crlf", FALSE>>, <<"lf", TRUE>>}

Written(pieces, style) ==
    [i \in 1..Len(pieces) |->
        [bytes |-> pieces[i],
         term |-> IF i = Len(pieces) /\ ~style[2] THEN "none" ELSE style[1]]]

Inputs ==
    {Written(h \o b, s) : h \in NestingHeaders, b \in BodyChoices(MaxBody), s \in Styles}
    \cup {Written(h \o b, s) : h \in PlainHeaders, b \in BodyChoices(MaxPlainBody), s \in Styles}
    \cup {Written(TestMessage, <<"crlf", TRUE>>)}

TermBytes(term) ==
    IF term = "crlf" THEN <<CR, LF>> ELSE IF term = "lf" THEN <<LF>> ELSE <<>>

\* The bytes of a written message.
Join(w) == Concat([i \in 1..Len(w) |-> w[i].bytes \o TermBytes(w[i].term)])

----------------------------------------------------------------------------
(* The parsing client: parse a message, walk it, parse every part again.   *)

InitParse ==
    /\ input \in Inputs
    /\ data = Join(input)
    /\ pc = "ready"
    /\ content = <<>>
    /\ walked = <<>>
    /\ reparsed = <<>>
    /\ BackendOff
    /\ ResponseOff

\* content = MessageContent.parse(data)
Parse ==
    /\ pc = "ready"
    /\ content' = <<MessageContent_parse(data)>>
    /\ pc' = "parsed"
    /\ UNCHANGED <<input, data, walked, reparsed, backend_vars, response_vars>>

\* walked = list(content.walk())
Walk ==
    /\ pc = "parsed"
    /\ walked' = walk(content[1])
    /\ pc' = "walked"
    /\ UNCHANGED <<input, data, content, reparsed, backend_vars, response_vars>>

\* reparsed = [MessageContent.parse(bytes(m.raw)) for m in walked]
Reparse ==
    /\ pc = "walked"
    /\ reparsed' = [i \in 1..Len(walked) |-> MessageContent_parse(walked[i].raw)]
    /\ pc' = "reparsed"
    /\ UNCHANGED <<input, data, content, walked, backend_vars, response_vars>>

NextParse == Parse \/ Walk \/ Reparse

SpecParse == InitParse /\ [][NextParse]_vars

----------------------------------------------------------------------------
(* What the written message says, read off its lines (not off the parser). *)

IsBlank(bytes) == \A i \in 1..Len(bytes) : bytes[i] \in whitespace

\* The lines of a written message: its lines, and the empty segment after the
\* last line break when the last line is terminated (or nothing was written).
Scan(w) ==
    IF w = <<>> \/ w[Len(w)].term # "none"
    THEN Append(w, [bytes |-> <<>>, term |-> "none"])
    ELSE w

\* Index of the first blank line of a scanned message, 0 when there is none.
FirstBlank(sl) ==
    LET blank == {i \in 1..Len(sl) : IsBlank(sl[i].bytes)}
    IN  IF blank = {} THEN 0 ELSE CHOOSE i \in blank : \A j \in blank : i <= j

\* The positions of the nodes of a content tree, in pre-order: a position is
\* the sequence of child indexes leading from the root to the node.
RECURSIVE PreorderPaths(_)
PreorderPaths(m) ==
    <<<<>>>> \o Concat([k \in 1..Len(m.body.nested) |->
                LET sub == PreorderPaths(m.body.nested[k])
                IN  [j \in 1..Len(sub) |-> <<k>> \o sub[j]]])

RECURSIVE NodeAt(_, _)
NodeAt(m, path) ==
    IF path = <<>> THEN m ELSE NodeAt(m.body.nested[Head(path)], Tail(path))

\* Every node of a content tree: the root and every nested part.
Nodes(m) ==
    LET paths == PreorderPaths(m)
    IN  {NodeAt(m, paths[i]) : i \in 1..Len(paths)}

Parsed == pc \in {"parsed", "walked", "reparsed"}

Root == content[1]

RECURSIVE SumSeq(_)
SumSeq(ns) == IF ns = <<>> THEN 0 ELSE Head(ns) + SumSeq(Tail(ns))

\* The written lines after the first blank line (all of them when none is blank).
WrittenBody(sl) == SubSeq(sl, FirstBlank(sl) + 1, Len(sl))

\* The written header lines before the line that ends the headers.
WrittenHeader(sl) == SubSeq(sl, 1, FirstBlank(sl) - 1)

\* The lines that are a Content-Type header, and the body variant each asks
\* for.
ContentTypeLines ==
    {L_ct_multipart, L_ct_rfc822, L_ct_noboundary, L_ct_emptyboundary,
     L_ct_nonascii, L_ct_plain, L_ct_bad}

KindAskedBy(line) ==
    IF line = L_ct_multipart THEN "multipart"
    ELSE IF line = L_ct_rfc822 THEN "rfc822"
    ELSE "singlepart"

\* The body variant the written message asks for: that of its first
\* Content-Type header line, singlepart when it has none.
KindAsked(sl) ==
    LET hl == WrittenHeader(sl)
        cts == {i \in 1..Len(hl) : hl[i].bytes \in ContentTypeLines}
    IN  IF cts = {} THEN "singlepart"
        ELSE KindAskedBy(hl[CHOOSE i \in cts : \A j \in cts : i <= j].bytes)

----------------------------------------------------------------------------
(* Claims about MessageContent.parse and walk, checked under SpecParse.    *)

\* C3: In every MessageContent that parse produces (the root and every nested
\* part), raw is the header raw followed by the body raw, the blank separator
\* line being the end of the header raw, so the lengths add up; the message
\* of the fetch tests splits into 108 + 50 = 158 octets.
C3_RawIsHeaderThenBody ==
    Parsed =>
        /\ \A m \in Nodes(Root) :
              /\ m.raw = m.header.raw \o m.body.raw
              /\ Len(m.raw) = Len(m.header.raw) + Len(m.body.raw)
        /\ Root.raw = data
        /\ input = Written(TestMessage, <<"crlf", TRUE>>) =>
              /\ Len(Root.header.raw) = 108
              /\ Len(Root.body.raw) = 50
              /\ Len(Root.raw) = 158
              /\ Root.header.raw \o Root.body.raw = data

\* A nested part with both a header section and a body has been parsed.
C3_Witness ==
    /\ Parsed
    /\ \E m \in Nodes(Root) :
          m # Root /\ Len(m.header.raw) > 0 /\ Len(m.body.raw) > 0

\* C4: The first line that is empty or whitespace-only ends the headers and is
\* the last header line, every line after it is body; with no such line the
\* header has no lines and every line is body.
C4_HeaderBodySplit ==
    Parsed =>
        LET sl == Scan(input)
            k == FirstBlank(sl)
        IN  /\ Root.header.lines = k
            /\ Root.header.raw = Join(SubSeq(sl, 1, k))
            /\ Root.body.raw = Join(SubSeq(sl, k + 1, Len(sl)))
            /\ Root.body.kind # "rfc822" => Root.body.lines = Len(sl) - k

\* A whitespace-only third line ended the headers and lines follow it.
C4_Witness ==
    /\ Parsed
    /\ Len(input) >= 5
    /\ FirstBlank(Scan(input)) = 3
    /\ input[3].bytes = L_space
    /\ Root.header.lines = 3
    /\ Root.body.lines >= 2

\* C5: A message with no blank line between headers and body, whether or not
\* its last line is terminated, is parsed as all headers and an empty body.
C5_NoBlankLineAllHeaders ==
    (Parsed /\ input # <<>> /\ \A i \in 1..Len(input) : ~IsBlank(input[i].bytes)) =>
        /\ Root.header.lines >= Len(input)
        /\ Root.header.raw = data
        /\ Root.body.lines = 0
        /\ Root.body.raw = <<>>

\* C6: The body variant follows from the Content-Type alone: text/plain when
\* the header is absent; multipart with a non-empty ASCII boundary gives a
\* multipart body; message/rfc822 gives one nested part parsed from the
\* whole body; anything else, a multipart whose boundary is missing, empty
\* or not ASCII included, gives a singlepart body without nested parts.
C6_VariantByContentType ==
    Parsed =>
        /\ Root.body.kind = KindAsked(Scan(input))
        /\ \A m \in Nodes(Root) :
            LET ct == m.body.content_type
                bnd == IF "boundary" \in DOMAIN ct.params THEN ct.params["boundary"] ELSE <<>>
                ascii == \A i \in 1..Len(bnd) : bnd[i] < 128
            IN  /\ b_content_type \notin DOMAIN m.header.parsed =>
                      ct.maintype = b_text /\ ct.subtype = b_plain
                /\ m.body.kind = "multipart" <=>
                      (ct.maintype = b_multipart /\ bnd # <<>> /\ ascii)
                /\ m.body.kind = "rfc822" <=>
                      (ct.maintype = b_message /\ ct.subtype = b_rfc822)
                /\ m.body.kind = "rfc822" =>
                      /\ Len(m.body.nested) = 1
                      /\ m.body.nested[1].raw = m.body.raw
                      /\ m.body.raw = SubSeq(m.raw, Len(m.header.raw) + 1, Len(m.raw))
                /\ m.body.kind \notin {"multipart", "rfc822"} =>
                      /\ m.body.kind = "singlepart"
                      /\ ~has_nested(m.body)
                      /\ m.body.nested = <<>>

\* A multipart Content-Type whose boundary is not ASCII gave a singlepart body.
C6_Witness ==
    /\ Parsed
    /\ Root.body.kind = "singlepart"
    /\ Root.body.content_type.maintype = b_multipart
    /\ "boundary" \in DOMAIN Root.body.content_type.params
    /\ Root.body.content_type.params["boundary"] # <<>>
    /\ Root.body.lines >= 2

\* The boundary markers among the written body lines bl for boundary b: the
\* index of the first line equal to --b-- (one past the end when there is
\* none) and the indexes before it of the lines equal to --b.
StopIndex(bl, b) ==
    LET stops == {i \in 1..Len(bl) : bl[i].bytes = b_dashes \o b \o b_dashes}
    IN  IF stops = {} THEN Len(bl) + 1 ELSE CHOOSE i \in stops : \A j \in stops : i <= j

PartIndexes(bl, b) ==
    {i \in 1..(StopIndex(bl, b) - 1) : bl[i].bytes = b_dashes \o b}

\* The index of the k-th line equal to --b
PartIndex(bl, b, k) ==
    CHOOSE i \in PartIndexes(bl, b) :
        Cardinality({j \in PartIndexes(bl, b) : j < i}) = k - 1

\* The written lines strictly between the k-th --b line and the next marker
PartLines(bl, b, k) ==
    LET n == Cardinality(PartIndexes(bl, b))
        last == IF k < n THEN PartIndex(bl, b, k + 1) ELSE StopIndex(bl, b)
    IN  SubSeq(bl, PartIndex(bl, b, k) + 1, last - 1)

\* C7: A multipart body with boundary B has one child per body line equal to
\* --B before the first line equal to --B-- (or the end of the body); child k
\* is made of exactly the lines strictly between the k-th --B line and the
\* next marker; the preamble and everything from --B-- on are in no child;
\* without any --B line the children sequence is empty.
C7_MultipartChildren ==
    (Parsed /\ Root.body.kind = "multipart") =>
        LET b == Root.body.content_type.params["boundary"]
            bl == WrittenBody(Scan(input))
            n == Cardinality(PartIndexes(bl, b))
        IN  /\ Len(Root.body.nested) = n
            /\ \A k \in 1..n :
                  /\ Root.body.nested[k].raw = Join(PartLines(bl, b, k))
                  /\ Root.body.nested[k].lines = Len(PartLines(bl, b, k)) - 1
            /\ PartIndexes(bl, b) = {} => Root.body.nested = <<>>

\* A multipart body with a preamble line, two --B lines each followed by a
\* line of text, a closing --B-- line and an epilogue has been parsed.
C7_Witness ==
    /\ Parsed
    /\ Root.body.kind = "multipart"
    /\ LET bl == WrittenBody(Scan(input))
       IN  /\ Len(bl) >= 7
           /\ bl[1].bytes = L_text
           /\ bl[2].bytes = L_part
           /\ bl[3].bytes = L_text
           /\ bl[4].bytes = L_part
           /\ bl[5].bytes = L_text
           /\ bl[6].bytes = L_stop
    /\ Len(Root.body.nested) = 2

\* C8: walk() yields every node of the tree exactly once, in pre-order: the
\* node, then the whole walk of each child in the order of body.nested; its
\* length is 1 plus the lengths of the children's walks, and a multipart with
\* two singlepart parts yields three entries.
C8_WalkPreorder ==
    pc \in {"walked", "reparsed"} =>
        LET paths == PreorderPaths(Root)
            kids == Root.body.nested
        IN  /\ Len(walked) = Len(paths)
            /\ \A i \in 1..Len(paths) : walked[i] = NodeAt(Root, paths[i])
            /\ \A i, j \in 1..Len(paths) : i # j => paths[i] # paths[j]
            /\ walked[1] = Root
            /\ Len(walked) = 1 + SumSeq([k \in 1..Len(kids) |-> Len(walk(kids[k]))])
            /\ walked = <<Root>> \o Concat([k \in 1..Len(kids) |-> walk(kids[k])])
            /\ (/\ Root.body.kind = "multipart"
                /\ Len(kids) = 2
                /\ \A k \in 1..2 : kids[k].body.kind = "singlepart")
               => Len(walked) = 3 /\ walked = <<Root, kids[1], kids[2]>>

\* A tree whose first child has a child of its own and is followed by a
\* second child has been walked.
C8_Witness ==
    /\ pc = "walked"
    /\ Len(Root.body.nested) >= 2
    /\ Len(Root.body.nested[1].body.nested) >= 1
    /\ Len(walked) >= 4

\* C9: Parsing the raw bytes of any node again gives the same header/body
\* split and the same number of nested parts.
C9_RoundTrip ==
    pc = "reparsed" =>
        \A i \in 1..Len(walked) :
            /\ reparsed[i].header.raw = walked[i].header.raw
            /\ reparsed[i].body.raw = walked[i].body.raw
            /\ Len(reparsed[i].body.nested) = Len(walked[i].body.nested)

----------------------------------------------------------------------------
(* pymap/backend/dict: the in-memory backend.                              *)
(*                                                                         *)
(* Names of mailboxes and of demo files are bytestrings, so that sorted()  *)
(* and startswith('.') are computed as Python computes them.               *)

\* b'INBOX'
n_INBOX == <<73, 78, 66, 79, 88>>
\* b'Sent'
n_Sent == <<83, 101, 110, 116>>
\* b'.readonly'
f_readonly == <<46, 114, 101, 97, 100, 111, 110, 108, 121>>
\* b'.keep'
f_keep == <<46, 107, 101, 101, 112>>
\* b'1'
f_1 == <<49>>
\* b'2'
f_2 == <<50>>
\* b'3'
f_3 == <<51>>
\* b'4'
f_4 == <<52>>
\* b'.'
b_dot == <<46>>

\* Concurrent Session.login calls.
NumLogins == 2

\* Mailbox commands run by the sessions, in all.
MaxOps == 4

\* The UID of the first message of a mailbox.
FirstUid == 100

Tasks == 1..NumLogins

Users == {"demouser", "other"}

Secrets == {"demopass", "wrong", ""}

\* A demo file: the flags of its first line (its timestamp and message
\* bytes play no part in what follows).
DemoFile(flags) == [flags_line |-> flags]

\* demo/INBOX as the fetch tests see it: four messages flagged \Seen,
\* \Answered \Seen, \Flagged \Seen and \Recent.
TestInbox ==
    (f_1 :> DemoFile({"\\Seen"})) @@ (f_2 :> DemoFile({"\\Answered", "\\Seen"}))
    @@ (f_3 :> DemoFile({"\\Flagged", "\\Seen"})) @@ (f_4 :> DemoFile({"\\Recent"}))

\* The demo directories the backend is run with.
DemoDirs ==
    { (n_INBOX :> TestInbox),
      (n_INBOX :> (TestInbox @@ (f_keep :> DemoFile({}))))
      @@ (n_Sent :> ((f_readonly :> DemoFile({})) @@ (f_1 :> DemoFile({"\\Recent", "\\Seen"})))) }

\* resource_listdir(cls.resource, path)
resource_listdir(dir) == DOMAIN dir

\* a < b for bytestrings
LexLess(a, b) ==
    \E i \in 1..(Len(a) + 1) :
        /\ i <= Len(b)
        /\ \A j \in 1..(i - 1) : a[j] = b[j]
        /\ (i = Len(a) + 1 \/ a[i] < b[i])

\* sorted(names)
RECURSIVE sorted(_)
sorted(names) ==
    IF names = {} THEN <<>>
    ELSE LET first == CHOOSE x \in names : \A y \in names \ {x} : LexLess(x, y)
         IN  <<first>> \o sorted(names \ {first})

\* str.startswith
startswith(name, prefix) ==
    Len(name) >= Len(prefix) /\ SubSeq(name, 1, Len(prefix)) = prefix

----------------------------------------------------------------------------
(* pymap/backend/dict/mailbox.py: MailboxData and MailboxSet.              *)

\* MailboxData(): no message, next UID FirstUid, not read-only.  assigned
\* records every UID the mailbox has handed out, in order.
MailboxData_new ==
    [uid_next |-> FirstUid, messages |-> <<>>, readonly |-> FALSE, assigned |-> <<>>]

\* MailboxData.add a message with the UID max live UID + 1
add_reusing_uid(mbx, msg, recent) ==
    LET uid == IF mbx.messages = <<>> THEN FirstUid
               ELSE mbx.messages[Len(mbx.messages)].uid + 1
    IN  [mbx EXCEPT !.messages = Append(@, [msg EXCEPT !.uid = uid, !.recent = recent]),
                    !.uid_next = uid + 1,
                    !.assigned = Append(@, uid)]

\* MailboxData.add(msg, recent): give msg the next UID and put it last.
MailboxData_add(mbx, msg, recent) ==
    [mbx EXCEPT !.messages = Append(@, [msg EXCEPT !.uid = mbx.uid_next, !.recent = recent]),
                !.uid_next = @ + 1,
                !.assigned = Append(@, mbx.uid_next)]

\* MailboxData.update_flags(seq, add, {\Deleted})
MailboxData_set_deleted(mbx, seq) ==
    [mbx EXCEPT !.messages[seq].flags = @ \cup {"\\Deleted"}]

RECURSIVE SelectSeq2(_, _)
SelectSeq2(msgs, keep) ==
    IF msgs = <<>> THEN <<>>
    ELSE IF Head(msgs).uid \in keep THEN <<Head(msgs)>> \o SelectSeq2(Tail(msgs), keep)
    ELSE SelectSeq2(Tail(msgs), keep)

\* MailboxData.expunge(): drop the messages flagged \Deleted.
MailboxData_expunge(mbx) ==
    [mbx EXCEPT !.messages =
        SelectSeq2(@, {mbx.messages[i].uid : i \in {j \in 1..Len(mbx.messages) :
                                                  "\\Deleted" \notin mbx.messages[j].flags}})]

\* MailboxSet(): a mailbox tree holding an empty INBOX.
MailboxSet_new == [mailboxes |-> (n_INBOX :> MailboxData_new)]

\* Message.parse(0, msg_data, msg_flags, msg_dt): a message without UID yet
Message_parse(uid, file, flags) == [uid |-> uid, flags |-> flags, recent |-> FALSE, file |-> file]

----------------------------------------------------------------------------
(* class Session: login and the demo loader.  A coroutine may be suspended *)
(* at each await; what runs between two awaits is one step.                *)

\* Session.get_password for any user ID
get_password_any_user(cfg, user) == <<cfg.demo_password>>

\* Session.get_password: <<password>>, or <<>> when it raises InvalidAuth
Session_get_password(cfg, user) ==
    LET expected_user == cfg.demo_user
        expected_password == cfg.demo_password
    IN  IF user = expected_user THEN <<expected_password>> ELSE <<>>

\* AuthenticationCredentials.check_secret
check_secret(secret, password) == secret = password

\* The test of login's line 114: True when login raises InvalidAuth
login_rejects(password, secret) ==
    password = "" \/ ~check_secret(secret, password)

\* The body of the loop of _load_demo_mailbox, adding dot files as messages
load_file_without_dot_test(mbx, msg_name, file) ==
    IF msg_name = f_readonly THEN [mbx EXCEPT !.readonly = TRUE]
    ELSE LET msg_flags == file.flags_line
             msg_recent == "\\Recent" \in msg_flags
             msg == Message_parse(0, msg_name, msg_flags \ {"\\Recent"})
         IN  MailboxData_add(mbx, msg, msg_recent)

\* The body of the loop of Session._load_demo_mailbox for the file msg_name
load_demo_mailbox_file(mbx, msg_name, file) ==
    IF msg_name = f_readonly THEN [mbx EXCEPT !.readonly = TRUE]
    ELSE IF startswith(msg_name, b_dot) THEN mbx
    ELSE LET msg_flags == file.flags_line
             msg_recent == "\\Recent" \in msg_flags
             msg == Message_parse(0, msg_name, msg_flags \ {"\\Recent"})
         IN  MailboxData_add(mbx, msg, msg_recent)

\* A login coroutine that has not been called.
IdleTask ==
    [pc |-> "idle", user |-> "", secret |-> "", password |-> "",
     mailbox_set |-> 0, mbx |-> <<>>, msg_names |-> <<>>, mbx_names |-> <<>>]

Init ==
    /\ ParserOff
    /\ ResponseOff
    /\ \E demo_data \in BOOLEAN, demo_password \in {"demopass", ""} :
          config = [demo_data |-> demo_data, demo_user |-> "demouser",
                    demo_password |-> demo_password]
    /\ demo \in DemoDirs
    /\ set_cache = <<>>
    /\ sets = <<>>
    /\ tasks = [t \in Tasks |-> IdleTask]
    /\ ops_done = 0

\* Session.login up to `password = await cls.get_password(config, user)`.
\* The coroutines are alike, so they are called in the order of their numbers.
Login(t, user, secret) ==
    /\ tasks[t].pc = "idle"
    /\ \A u \in 1..(t - 1) : tasks[u].pc # "idle"
    /\ LET password == Session_get_password(config, user)
       IN  tasks' = [tasks EXCEPT ![t] =
               [@ EXCEPT !.user = user, !.secret = secret,
                         !.pc = IF password = <<>> THEN "InvalidAuth" ELSE "got_password",
                         !.password = IF password = <<>> THEN "" ELSE password[1]]]
    /\ UNCHANGED <<config, demo, set_cache, sets, ops_done, parse_vars, response_vars>>

\* Session.login from the credential test on, creating a MailboxSet without
\* looking into config.set_cache
login_check_without_cache(t) ==
    /\ tasks[t].pc = "got_password"
    /\ LET user == tasks[t].user
       IN  IF login_rejects(tasks[t].password, tasks[t].secret)
           THEN /\ tasks' = [tasks EXCEPT ![t].pc = "InvalidAuth"]
                /\ UNCHANGED <<set_cache, sets>>
           ELSE /\ sets' = Append(sets, MailboxSet_new)
                /\ IF config.demo_data
                   THEN /\ tasks' = [tasks EXCEPT ![t].pc = "load_demo",
                                                  ![t].mailbox_set = Len(sets) + 1]
                        /\ UNCHANGED set_cache
                   ELSE /\ tasks' = [tasks EXCEPT ![t].pc = "session",
                                                  ![t].mailbox_set = Len(sets) + 1]
                        /\ set_cache' = (user :> (Len(sets) + 1)) @@ set_cache
    /\ UNCHANGED <<config, demo, ops_done, parse_vars, response_vars>>

\* Session.login from the credential test to the next await or the return:
\* raise InvalidAuth, return a session on the cached MailboxSet, or create a
\* MailboxSet and either start loading the demo data or cache it and return.
LoginCheck(t) ==
    /\ tasks[t].pc = "got_password"
    /\ LET user == tasks[t].user
       IN  IF login_rejects(tasks[t].password, tasks[t].secret)
           THEN /\ tasks' = [tasks EXCEPT ![t].pc = "InvalidAuth"]
                /\ UNCHANGED <<set_cache, sets>>
           ELSE IF user \in DOMAIN set_cache
           THEN /\ tasks' = [tasks EXCEPT ![t].pc = "session",
                                          ![t].mailbox_set = set_cache[user]]
                /\ UNCHANGED <<set_cache, sets>>
           ELSE /\ sets' = Append(sets, MailboxSet_new)
                /\ IF config.demo_data
                   THEN /\ tasks' = [tasks EXCEPT ![t].pc = "load_demo",
                                                  ![t].mailbox_set = Len(sets) + 1]
                        /\ UNCHANGED set_cache
                   ELSE /\ tasks' = [tasks EXCEPT ![t].pc = "session",
                                                  ![t].mailbox_set = Len(sets) + 1]
                        /\ set_cache' = (user :> (Len(sets) + 1)) @@ set_cache
    /\ UNCHANGED <<config, demo, ops_done, parse_vars, response_vars>>

\* Session._load_demo: `inbox = await mailbox_set.get_mailbox('INBOX')` and
\* the listings of demo and demo/INBOX (the packaged files never change, so
\* it does not matter when they are listed).
LoadDemo(t) ==
    /\ tasks[t].pc = "load_demo"
    /\ tasks' = [tasks EXCEPT ![t].pc = "load_mailbox",
                              ![t].mbx = n_INBOX,
                              ![t].msg_names = sorted(resource_listdir(demo[n_INBOX])),
                              ![t].mbx_names = sorted(resource_listdir(demo))]
    /\ UNCHANGED <<config, demo, set_cache, sets, ops_done, parse_vars, response_vars>>

\* Session._load_demo_mailbox: one pass of its loop, for the next file.
LoadDemoFile(t) ==
    /\ tasks[t].pc = "load_mailbox"
    /\ tasks[t].msg_names # <<>>
    /\ LET name == tasks[t].mbx
           msg_name == Head(tasks[t].msg_names)
           sid == tasks[t].mailbox_set
       IN  sets' = [sets EXCEPT ![sid].mailboxes[name] =
                       load_demo_mailbox_file(@, msg_name, demo[name][msg_name])]
    /\ tasks' = [tasks EXCEPT ![t].msg_names = Tail(@)]
    /\ UNCHANGED <<config, demo, set_cache, ops_done, parse_vars, response_vars>>

\* Session._load_demo: one pass of its loop over the mailbox names, after
\* the files of the mailbox before have been loaded.
LoadDemoNext(t) ==
    /\ tasks[t].pc = "load_mailbox"
    /\ tasks[t].msg_names = <<>>
    /\ tasks[t].mbx_names # <<>>
    /\ LET name == Head(tasks[t].mbx_names)
           sid == tasks[t].mailbox_set
       IN  IF name # n_INBOX
           THEN /\ sets' = [sets EXCEPT ![sid].mailboxes = (name :> MailboxData_new) @@ @]
                /\ tasks' = [tasks EXCEPT ![t].mbx_names = Tail(@),
                                          ![t].mbx = name,
                                          ![t].msg_names = sorted(resource_listdir(demo[name]))]
           ELSE /\ tasks' = [tasks EXCEPT ![t].mbx_names = Tail(@)]
                /\ UNCHANGED sets
    /\ UNCHANGED <<config, demo, set_cache, ops_done, parse_vars, response_vars>>

\* Session.login after `await cls._load_demo(mailbox_set)`: cache the
\* MailboxSet and return the session.
LoginStore(t) ==
    /\ tasks[t].pc = "load_mailbox"
    /\ tasks[t].msg_names = <<>>
    /\ tasks[t].mbx_names = <<>>
    /\ set_cache' = (tasks[t].user :> tasks[t].mailbox_set) @@ set_cache
    /\ tasks' = [tasks EXCEPT ![t].pc = "session"]
    /\ UNCHANGED <<config, demo, sets, ops_done, parse_vars, response_vars>>

----------------------------------------------------------------------------
(* Commands of a logged-in session on the INBOX of its mailbox set.        *)

SessionInbox(t) == sets[tasks[t].mailbox_set].mailboxes[n_INBOX]

\* APPEND: MailboxData.add of a new message
Append_(t) ==
    /\ tasks[t].pc = "session"
    /\ ops_done < MaxOps
    /\ sets' = [sets EXCEPT ![tasks[t].mailbox_set].mailboxes[n_INBOX] =
                   MailboxData_add(@, Message_parse(0, <<>>, {}), TRUE)]
    /\ ops_done' = ops_done + 1
    /\ UNCHANGED <<config, demo, set_cache, tasks, parse_vars, response_vars>>

\* STORE +FLAGS (\Deleted) on a message that does not have the flag
StoreDeleted(t) ==
    /\ tasks[t].pc = "session"
    /\ ops_done < MaxOps
    /\ \E seq \in 1..Len(SessionInbox(t).messages) :
          /\ "\\Deleted" \notin SessionInbox(t).messages[seq].flags
          /\ sets' = [sets EXCEPT ![tasks[t].mailbox_set].mailboxes[n_INBOX] =
                         MailboxData_set_deleted(@, seq)]
    /\ ops_done' = ops_done + 1
    /\ UNCHANGED <<config, demo, set_cache, tasks, parse_vars, response_vars>>

\* EXPUNGE
Expunge(t) ==
    /\ tasks[t].pc = "session"
    /\ ops_done < MaxOps
    /\ sets' = [sets EXCEPT ![tasks[t].mailbox_set].mailboxes[n_INBOX] =
                   MailboxData_expunge(@)]
    /\ ops_done' = ops_done + 1
    /\ UNCHANGED <<config, demo, set_cache, tasks, parse_vars, response_vars>>

\* The backend serving concurrent logins.
Next ==
    \E t \in Tasks :
        \/ \E user \in Users, secret \in Secrets : Login(t, user, secret)
        \/ LoginCheck(t)
        \/ LoadDemo(t)
        \/ LoadDemoFile(t)
        \/ LoadDemoNext(t)
        \/ LoginStore(t)

Spec == Init /\ [][Next]_vars

\* One client: it logs in as the demo user and works on its INBOX.
NextMailbox ==
    \/ Login(1, "demouser", "demopass")
    \/ LoginCheck(1)
    \/ LoadDemo(1)
    \/ LoadDemoFile(1)
    \/ LoadDemoNext(1)
    \/ LoginStore(1)
    \/ Append_(1)
    \/ StoreDeleted(1)
    \/ Expunge(1)

SpecMailbox == Init /\ [][NextMailbox]_vars

----------------------------------------------------------------------------
(* Claims about the backend, checked under Spec (C2 under SpecMailbox).     *)

\* The sessions login has returned.
Sessions == {t \in Tasks : tasks[t].pc = "session"}

\* C1: However the login calls interleave, two sessions of the same user
\* hold the same MailboxSet object, the one config.set_cache holds for the
\* user.
C1_SessionsShareMailboxSet ==
    \A t1, t2 \in Sessions :
        tasks[t1].user = tasks[t2].user =>
            /\ tasks[t1].mailbox_set = tasks[t2].mailbox_set
            /\ tasks[t1].user \in DOMAIN set_cache
            /\ set_cache[tasks[t1].user] = tasks[t1].mailbox_set

\* The MailboxSet objects whose demo data has been loaded completely.
LoadedSets ==
    {s \in 1..Len(sets) : config.demo_data /\ \E t \in Sessions : tasks[t].mailbox_set = s}

\* C2: In every mailbox each inserted message gets a UID greater than every
\* UID assigned before, expunged ones included: the UIDs handed out are
\* strictly increasing, the live messages are in strictly increasing UID
\* order and UIDNEXT is above every assigned UID; the loaded demo INBOX
\* holds UIDs 100..103 at sequence numbers 1..4 with UIDNEXT 104.
C2_UidsIncrease ==
    \A s \in 1..Len(sets) : \A name \in DOMAIN sets[s].mailboxes :
        LET mbx == sets[s].mailboxes[name]
            uids == [i \in 1..Len(mbx.messages) |-> mbx.messages[i].uid]
        IN  /\ \A i, j \in 1..Len(mbx.assigned) :
                  i < j => mbx.assigned[i] < mbx.assigned[j]
            /\ \A i, j \in 1..Len(uids) : i < j => uids[i] < uids[j]
            /\ \A i \in 1..Len(uids) : \E j \in 1..Len(mbx.assigned) : uids[i] = mbx.assigned[j]
            /\ \A i \in 1..Len(mbx.assigned) : mbx.assigned[i] < mbx.uid_next
            /\ (s \in LoadedSets /\ name = n_INBOX) =>
                  /\ Len(mbx.assigned) >= 4
                  /\ SubSeq(mbx.assigned, 1, 4) = <<100, 101, 102, 103>>
                  /\ (Len(mbx.assigned) = 4 /\ Len(uids) = 4) =>
                        uids = <<100, 101, 102, 103>> /\ mbx.uid_next = 104

\* The last demo message (UID 103) was expunged from a loaded INBOX and a
\* message was inserted after that.
C2_Witness ==
    \E s \in LoadedSets :
        LET mbx == sets[s].mailboxes[n_INBOX]
        IN  /\ \A i \in 1..Len(mbx.messages) : mbx.messages[i].uid # 103
            /\ \E i \in 1..Len(mbx.messages) : mbx.messages[i].uid = 104

\* The credentials of login t are not those of the demo user, or the
\* configured password is empty.
BadCredentials(t) ==
    \/ tasks[t].user # config.demo_user
    \/ tasks[t].secret # config.demo_password
    \/ config.demo_password = ""

\* C10: In any state a login whose user is not the demo user, whose secret
\* is not the configured password, or against an empty configured password
\* raises InvalidAuth: every step it takes leads to the password test or to
\* InvalidAuth, returns no session, loads no demo data and leaves
\* config.set_cache and the MailboxSet objects as they are.
C10_BadLoginRaises ==
    [][\A t \in Tasks :
          (tasks'[t] # tasks[t] /\ tasks'[t].pc # "idle"
              /\ (\/ tasks'[t].user # config.demo_user
                  \/ tasks'[t].secret # config.demo_password
                  \/ config.demo_password = "")) =>
              /\ tasks'[t].pc \in {"got_password", "InvalidAuth"}
              /\ tasks[t].pc = "got_password" => tasks'[t].pc = "InvalidAuth"
              /\ tasks'[t].user # config.demo_user => tasks'[t].pc = "InvalidAuth"
              /\ tasks'[t].mailbox_set = 0
              /\ set_cache' = set_cache
              /\ sets' = sets]_vars

\* After a successful login of the demo user, a login of the demo user with
\* a wrong secret has raised InvalidAuth.
C10_Witness ==
    \E t1, t2 \in Tasks :
        /\ tasks[t1].pc = "session"
        /\ tasks[t1].user \in DOMAIN set_cache
        /\ tasks[t2].pc = "InvalidAuth"
        /\ tasks[t2].user = config.demo_user
        /\ tasks[t2].password # ""
        /\ tasks[t2].secret # tasks[t2].password

----------------------------------------------------------------------------
(* Logins that do not overlap: login is called only while no other login   *)
(* is between its call and its return.                                     *)

\* No login coroutine is suspended at an await.
NoLoginRunning ==
    \A u \in Tasks : tasks[u].pc \in {"idle", "session", "InvalidAuth"}

LoginAlone(t, user, secret) ==
    /\ NoLoginRunning
    /\ Login(t, user, secret)

NextSequential ==
    \E t \in Tasks :
        \/ \E user \in Users, secret \in Secrets : LoginAlone(t, user, secret)
        \/ LoginCheck(t)
        \/ LoadDemo(t)
        \/ LoadDemoFile(t)
        \/ LoadDemoNext(t)
        \/ LoginStore(t)

SpecSequential == Init /\ [][NextSequential]_vars

\* The files of a demo mailbox that are messages.
DemoMessages(name) == {f \in DOMAIN demo[name] : ~startswith(f, b_dot)}

\* The coroutines inside the demo loader.
Loading == {t \in Tasks : tasks[t].pc \in {"load_demo", "load_mailbox"}}

\* Every session of a user holds the cached MailboxSet, one MailboxSet was
\* created per cached user, and a MailboxSet loaded with the demo data holds
\* every demo message once.
C11_State ==
    /\ \A t \in Sessions :
          /\ tasks[t].user \in DOMAIN set_cache
          /\ tasks[t].mailbox_set = set_cache[tasks[t].user]
    /\ Len(sets) <= 1
    /\ Len(sets) = Cardinality(DOMAIN set_cache) + Cardinality(Loading)
    /\ \A s \in LoadedSets :
          /\ DOMAIN sets[s].mailboxes = DOMAIN demo
          /\ \A name \in DOMAIN demo :
                LET msgs == sets[s].mailboxes[name].messages
                IN  /\ Len(msgs) = Cardinality(DemoMessages(name))
                    /\ {msgs[i].file : i \in 1..Len(msgs)} = DemoMessages(name)
    /\ \A s \in 1..Len(sets) :
          ~config.demo_data => sets[s] = MailboxSet_new

\* The loader runs only for a user that is not cached, a login of a cached
\* user creates and loads nothing, and set_cache keeps every entry.
C11_Step ==
    /\ \A t \in Tasks :
          /\ (tasks'[t] # tasks[t] /\ tasks'[t].pc \in {"load_demo", "load_mailbox"}) =>
                /\ config.demo_data
                /\ tasks'[t].user \notin DOMAIN set_cache
          /\ (tasks[t].pc = "got_password" /\ tasks'[t].pc = "session"
                /\ tasks[t].user \in DOMAIN set_cache) =>
                /\ sets' = sets
                /\ set_cache' = set_cache
                /\ tasks'[t].mailbox_set = set_cache[tasks[t].user]
    /\ \A u \in DOMAIN set_cache :
          u \in DOMAIN set_cache' /\ set_cache'[u] = set_cache[u]

\* C11: Over logins that do not overlap, the first successful login of a
\* user creates the user's MailboxSet and, with demo_data, loads the demo
\* data into it exactly once; every later successful login returns the
\* cached MailboxSet without running the loader, so no demo message is
\* duplicated; and no step removes or replaces an entry of set_cache.
C11_LoadedOnceThenCached == []C11_State /\ [][C11_Step]_vars

\* With demo data, two logins of the demo user have returned sessions one
\* after the other, on the one MailboxSet holding the two demo mailboxes.
C11_Witness ==
    /\ config.demo_data
    /\ Cardinality(Sessions) >= 2
    /\ Len(sets) = 1
    /\ Cardinality(DOMAIN demo) = 2
    /\ \A t \in Sessions : tasks[t].mailbox_set = 1

----------------------------------------------------------------------------
(* pymap/parsing/response: Response and its subclasses, as the tests of    *)
(* test_parsing_response.py use them.                                      *)

\* b'\r\n'
b_crlf == <<CR, LF>>
\* b' '
b_space == <<32>>
\* b'+'
b_plus == <<43>>
\* b'*'
b_star == <<42>>
\* b'BYE '
b_bye == <<66, 89, 69, 32>>
\* b'tag'
r_tag == <<116, 97, 103>>
\* b'response test'
r_text == <<114, 101, 115, 112, 111, 110, 115, 101, 32, 116, 101, 115, 116>>
\* b'test continuation'
r_continuation == <<116, 101, 115, 116, 32, 99, 111, 110, 116, 105, 110, 117, 97, 116, 105, 111, 110>>
\* b'bye response'
r_bye == <<98, 121, 101, 32, 114, 101, 115, 112, 111, 110, 115, 101>>
\* b'test data 1\r\n'
r_data1 == <<116, 101, 115, 116, 32, 100, 97, 116, 97, 32, 49, 13, 10>>
\* b'test data 2\r\n'
r_data2 == <<116, 101, 115, 116, 32, 100, 97, 116, 97, 32, 50, 13, 10>>
\* b'* 2 EXPUNGE\r\n'
r_expunge == <<42, 32, 50, 32, 69, 88, 80, 85, 78, 71, 69, 13, 10>>

\* add_untagged calls on one response.
MaxUntagged == 3

\* bytes(response) calls on one response.
MaxBytesCalls == 3

TagChoices == {r_tag, <<97>>}

TextChoices == {r_text, r_continuation, r_bye}

UntaggedChoices == {r_data1, r_data2, r_expunge}

\* Response(tag, text): no untagged data, nothing serialized yet.
Response_new(tag, text) ==
    [tag |-> tag, text |-> text, untagged |-> <<>>, raw |-> <<>>]

\* ResponseContinuation(text)
ResponseContinuation_new(text) == Response_new(b_plus, text)

\* ResponseBye(text)
ResponseBye_new(text) == Response_new(b_star, b_bye \o text)

\* Response.add_untagged(data) leaving the serialized bytes in place
add_untagged_keeping_raw(resp, d) ==
    [resp EXCEPT !.untagged = Append(@, d)]

\* Response.add_untagged(data): the data goes last and the serialized bytes
\* are forgotten.
Response_add_untagged(resp, d) ==
    [resp EXCEPT !.untagged = Append(@, d), !.raw = <<>>]

\* Response.__bytes__: the response after the call (its bytes are raw[1]);
\* the untagged data in order, then the tagged line.
Response_bytes(resp) ==
    IF resp.raw # <<>> THEN resp
    ELSE [resp EXCEPT !.raw =
             <<Concat(resp.untagged) \o resp.tag \o b_space \o resp.text \o b_crlf>>]

InitResponse ==
    /\ ParserOff
    /\ BackendOff
    /\ \E tag \in TagChoices, text \in TextChoices, kind \in {"tagged", "continuation", "bye"} :
          response = <<[kind |-> kind, text |-> text,
                        obj |-> IF kind = "tagged" THEN Response_new(tag, text)
                                ELSE IF kind = "continuation" THEN ResponseContinuation_new(text)
                                ELSE ResponseBye_new(text)]>>
    /\ added = <<>>
    /\ wire = <<>>

\* resp.add_untagged(d)
AddUntagged(d) ==
    /\ response # <<>>
    /\ Len(added) < MaxUntagged
    /\ response' = <<[response[1] EXCEPT !.obj = Response_add_untagged(@, d)]>>
    /\ added' = Append(added, d)
    /\ UNCHANGED <<wire, parse_vars, backend_vars>>

\* bytes(resp)
Bytes ==
    /\ response # <<>>
    /\ Len(wire) < MaxBytesCalls
    /\ LET after == Response_bytes(response[1].obj)
       IN  /\ response' = <<[response[1] EXCEPT !.obj = after]>>
           /\ wire' = Append(wire, [bytes |-> after.raw[1], added |-> added])
    /\ UNCHANGED <<added, parse_vars, backend_vars>>

NextResponse ==
    \/ \E d \in UntaggedChoices : AddUntagged(d)
    \/ Bytes

SpecResponse == InitResponse /\ [][NextResponse]_vars

\* The tagged line a response was constructed to end with.
TaggedLine(r) ==
    IF r.kind = "tagged" THEN r.obj.tag \o b_space \o r.text \o b_crlf
    ELSE IF r.kind = "continuation" THEN b_plus \o b_space \o r.text \o b_crlf
    ELSE b_star \o b_space \o b_bye \o r.text \o b_crlf

\* C12: After any sequence of add_untagged calls, bytes(response) is the
\* untagged data in the order it was added followed by the one tagged line
\* <tag> <text> CRLF; serializing again without an add_untagged in between
\* gives the same bytes; a continuation ends with + <text> CRLF and a BYE with
\* * BYE <text> CRLF, so every serialized response ends with CRLF.
C12_ResponseBytes ==
    response # <<>> =>
        /\ \A i \in 1..Len(wire) :
              LET out == wire[i].bytes
              IN  /\ out = Concat(wire[i].added) \o TaggedLine(response[1])
                  /\ Len(out) >= 2
                  /\ SubSeq(out, Len(out) - 1, Len(out)) = <<CR, LF>>
        /\ \A i, j \in 1..Len(wire) :
              wire[i].added = wire[j].added => wire[i].bytes = wire[j].bytes
        /\ \A i \in 1..Len(wire) :
              (/\ response[1].kind = "tagged" /\ response[1].obj.tag = r_tag
               /\ response[1].text = r_text /\ wire[i].added = <<r_data1, r_data2>>)
              => wire[i].bytes = r_data1 \o r_data2 \o <<116, 97, 103, 32, 114, 101, 115, 112, 111, 110, 115, 101, 32, 116, 101, 115, 116, 13, 10>>

\* A response was serialized twice, then given untagged data, then
\* serialized again with the data in front of its tagged line.
C12_Witness ==
    /\ Len(wire) = 3
    /\ wire[1].added = wire[2].added
    /\ Len(wire[3].added) > Len(wire[2].added)
    /\ Len(wire[3].bytes) > Len(wire[2].bytes)

----------------------------------------------------------------------------
(* The demo loader over many directory listings: one login of the demo     *)
(* user with demo data.                                                    *)

\* b'+0', a file name sorted before the dot files
f_early == <<43, 48>>

LoaderNames == {f_early, f_keep, f_readonly, f_1, f_2}

\* The flags line of each file.
LoaderFlags(name) ==
    IF name = f_early THEN {"\\Recent", "\\Seen"}
    ELSE IF name = f_1 THEN {"\\Seen"}
    ELSE IF name = f_2 THEN {"\\Recent"}
    ELSE {}

\* The listings of a demo mailbox directory.
Listings == {[name \in names |-> DemoFile(LoaderFlags(name))] : names \in SUBSET LoaderNames}

LoaderDirs ==
    {(n_INBOX :> l) : l \in Listings}
    \cup {(n_INBOX :> TestInbox) @@ (n_Sent :> l) : l \in Listings}

InitLoader ==
    /\ ParserOff
    /\ ResponseOff
    /\ config = [demo_data |-> TRUE, demo_user |-> "demouser", demo_password |-> "demopass"]
    /\ demo \in LoaderDirs
    /\ set_cache = <<>>
    /\ sets = <<>>
    /\ tasks = [t \in Tasks |-> IdleTask]
    /\ ops_done = 0

NextLoader ==
    \/ Login(1, "demouser", "demopass")
    \/ LoginCheck(1)
    \/ LoadDemo(1)
    \/ LoadDemoFile(1)
    \/ LoadDemoNext(1)
    \/ LoginStore(1)

SpecLoader == InitLoader /\ [][NextLoader]_vars

\* The files of mailbox name that the loader of login t has gone through, in
\* the order it went through them.
FilesDone(t, name) ==
    LET all == sorted(DOMAIN demo[name])
    IN  IF tasks[t].pc = "load_mailbox" /\ tasks[t].mbx = name
        THEN SubSeq(all, 1, Len(all) - Len(tasks[t].msg_names))
        ELSE all

\* The names of a sequence that do not begin with a dot, in order.
RECURSIVE WithoutDotFiles(_)
WithoutDotFiles(names) ==
    IF names = <<>> THEN <<>>
    ELSE IF Len(Head(names)) > 0 /\ Head(names)[1] = 46
    THEN WithoutDotFiles(Tail(names))
    ELSE <<Head(names)>> \o WithoutDotFiles(Tail(names))

\* A mailbox is read-only exactly when .readonly is among the files gone
\* through, and holds one message per other file not beginning with a dot,
\* in sorted file name order, \Recent taken out of its flags and kept as
\* its recent mark.
C13_State ==
    \A t \in Tasks :
        tasks[t].pc \in {"load_mailbox", "session"} =>
            LET set == sets[tasks[t].mailbox_set]
            IN  \A name \in DOMAIN set.mailboxes :
                    LET mbx == set.mailboxes[name]
                        done == FilesDone(t, name)
                        files == WithoutDotFiles(done)
                    IN  /\ mbx.readonly <=> \E i \in 1..Len(done) : done[i] = f_readonly
                        /\ Len(mbx.messages) = Len(files)
                        /\ \A i \in 1..Len(files) :
                              LET line == demo[name][files[i]].flags_line
                              IN  /\ mbx.messages[i].file = files[i]
                                  /\ "\\Recent" \notin mbx.messages[i].flags
                                  /\ mbx.messages[i].flags = line \ {"\\Recent"}
                                  /\ mbx.messages[i].recent <=> "\\Recent" \in line
                        /\ \A i, j \in 1..Len(mbx.messages) :
                              i < j => LexLess(mbx.messages[i].file, mbx.messages[j].file)

\* A mailbox marked read-only stays read-only, and the messages added stay.
C13_Step ==
    \A s \in 1..Len(sets) : \A name \in DOMAIN sets[s].mailboxes :
        LET before == sets[s].mailboxes[name]
            after == sets'[s].mailboxes[name]
        IN  /\ before.readonly => after.readonly
            /\ Len(after.messages) >= Len(before.messages)
            /\ SubSeq(after.messages, 1, Len(before.messages)) = before.messages

\* C13: For any demo mailbox listing, _load_demo_mailbox marks the mailbox
\* read-only if and only if a file named .readonly is present and never
\* clears the mark; every other file beginning with a dot gives no message;
\* every remaining file gives exactly one added message, in sorted file name
\* order; a \Recent token of the flags line is never among the stored flags
\* and is handed to add as the recent argument.
C13_LoaderRules == []C13_State /\ [][C13_Step]_vars

\* The login has returned after loading a Sent mailbox listing a message
\* sorted before the dot files, .keep, .readonly and a \Recent message.
C13_Witness ==
    /\ tasks[1].pc = "session"
    /\ n_Sent \in DOMAIN demo
    /\ DOMAIN demo[n_Sent] = {f_early, f_keep, f_readonly, f_2}
    /\ LET mbx == sets[tasks[1].mailbox_set].mailboxes[n_Sent]
       IN  /\ mbx.readonly
           /\ Len(mbx.messages) = 2
           /\ mbx.messages[2].recent

----------------------------------------------------------------------------
(* Header sections handed to the parser: up to MaxHeaderLines header lines *)
(* followed by a blank line and a body line, by a whitespace-only line, or *)
(* by nothing.                                                             *)

\* b' k: v', a continuation line holding a colon
L_fold_colon == <<32, 107, 58, 32, 118>>
\* b'SUBJECT : z'
L_subject_upper == <<83, 85, 66, 74, 69, 67, 84, 32, 58, 32, 122>>

\* Header lines drawn before the separator.
MaxHeaderLines == 4

HeaderPieces == {L_subject, L_subject_upper, L_fold, L_fold_colon, L_nocolon}

HeaderTails == {<<L_blank, L_text>>, <<L_space>>, <<>>}

HeaderInputs ==
    {Written(h \o t, st) :
        h \in UNION {[1..n -> HeaderPieces] : n \in 0..MaxHeaderLines},
        t \in HeaderTails, st \in Styles}

InitHeader ==
    /\ input \in HeaderInputs
    /\ data = Join(input)
    /\ pc = "ready"
    /\ content = <<>>
    /\ walked = <<>>
    /\ reparsed = <<>>
    /\ BackendOff
    /\ ResponseOff

NextHeader == Parse

SpecHeader == InitHeader /\ [][NextHeader]_vars

\* The logical headers of the written header lines hl, from line i on: each a
\* line whose first byte is not whitespace with the lines after it whose
\* first byte is whitespace.
StartsGroup(line) == line.bytes[1] \notin whitespace

RECURSIVE GroupEnd(_, _)
GroupEnd(hl, i) ==
    IF i < Len(hl) /\ ~StartsGroup(hl[i + 1]) THEN GroupEnd(hl, i + 1) ELSE i

RECURSIVE GroupsFrom(_, _)
GroupsFrom(hl, i) ==
    IF i > Len(hl) THEN <<>>
    ELSE IF StartsGroup(hl[i])
    THEN <<SubSeq(hl, i, GroupEnd(hl, i))>> \o GroupsFrom(hl, GroupEnd(hl, i) + 1)
    ELSE GroupsFrom(hl, i + 1)

HasColon(bytes) == \E k \in 1..Len(bytes) : bytes[k] = COLON

\* A group one of whose lines holds a colon / whose first line holds one.
GroupHasColon(g) == \E k \in 1..Len(g) : HasColon(g[k].bytes)

FirstLineHasColon(g) == HasColon(g[1].bytes)

\* The bytes before the first colon, stripped and in lower case.
NameBefore(bytes) == lower(strip(Slice(bytes, 0, Find(bytes, COLON, 0, Len(bytes)))))

\* The groups of a sequence of groups, each with its name, that bear name n.
RECURSIVE GroupsNamed(_, _, _)
GroupsNamed(groups, names, n) ==
    IF groups = <<>> THEN <<>>
    ELSE (IF Head(names) = n
          THEN <<[k \in 1..Len(Head(groups)) |-> Head(groups)[k].bytes]>> ELSE <<>>)
         \o GroupsNamed(Tail(groups), Tail(names), n)

\* The header of the parsed message holds exactly the groups kept, named names.
HeaderHolds(kept, names) ==
    LET h == Root.header
    IN  /\ Len(h.folded) = Len(kept)
        /\ \A k \in 1..Len(kept) :
              /\ h.folded[k][1] = names[k]
              /\ h.folded[k][2] = Join(kept[k])
        /\ DOMAIN h.parsed = {names[k] : k \in 1..Len(kept)}
        /\ \A n \in DOMAIN h.parsed : h.parsed[n] = GroupsNamed(kept, names, n)
        /\ SumSeq([k \in 1..Len(kept) |->
               Len(h.parsed[names[k]]) - Len(GroupsNamed(SubSeq(kept, 1, k - 1), SubSeq(names, 1, k - 1), names[k]))
               - Len(GroupsNamed(SubSeq(kept, k + 1, Len(kept)), SubSeq(names, k + 1, Len(kept)), names[k]))])
           = Len(h.folded)

\* C14 as stated: the logical headers are the groups of a line not beginning
\* with whitespace and the lines after it beginning with whitespace, the
\* separator in none; a group is dropped exactly when it holds no colon;
\* every other group gives one entry of folded, named by the bytes before the
\* first colon, stripped and in lower case, in source order with duplicates;
\* the name index holds each name's groups in source order, as many in all
\* as folded has entries.
C14_GroupsWithColonKept ==
    Parsed =>
        LET groups == GroupsFrom(WrittenHeader(Scan(input)), 1)
            kept == SelectSeq(groups, GroupHasColon)
            names == [k \in 1..Len(kept) |->
                        NameBefore(Concat([j \in 1..Len(kept[k]) |-> kept[k][j].bytes]))]
        IN  HeaderHolds(kept, names)

\* C14 amended: as stated, but a group is dropped exactly when its first line
\* holds no colon, and the name is taken from the first line.
C14_GroupsWithColonInFirstLineKept ==
    Parsed =>
        LET groups == GroupsFrom(WrittenHeader(Scan(input)), 1)
            kept == SelectSeq(groups, FirstLineHasColon)
            names == [k \in 1..Len(kept) |-> NameBefore(kept[k][1].bytes)]
        IN  HeaderHolds(kept, names)

\* A header section of Subject with a continuation, a line without colon and
\* SUBJECT in capitals, ended by a whitespace-only line, has been parsed: one
\* group dropped, two kept under the one name.
C14_Witness ==
    /\ Parsed
    /\ Len(input) = 5
    /\ [i \in 1..5 |-> input[i].bytes] = <<L_subject, L_fold, L_nocolon, L_subject_upper, L_space>>
    /\ Len(Root.header.folded) = 2
    /\ Root.header.folded[1][1] = Root.header.folded[2][1]
    /\ Len(Root.header.parsed[Root.header.folded[1][1]]) = 2

----------------------------------------------------------------------------
(* Line counts of the parsed tree, checked under SpecParse.                *)

\* C15: Every node of the tree parse produces (the root, every multipart
\* child, one with no line between two boundary markers included, and every
\* message/rfc822 child, one parsed from an empty body included) has a line
\* count, a header line count and a body line count that are not negative.
C15_LineCountsNotNegative ==
    Parsed =>
        \A m \in Nodes(Root) :
            /\ m.lines >= 0
            /\ m.header.lines >= 0
            /\ m.body.lines >= 0


====
